---- MODULE Spec2Model ----
(***************************************************************************)
(* A model of the two spartan:// servers of this repository,               *)
(*   src/spartan_cgi_server.py  (server = "spartan")                       *)
(*   src/cgi.py                 (server = "legacy")                        *)
(* Each accepted connection is handled by one worker thread of             *)
(* ThreadingTCPServer, which runs SpartanRequestHandler.handle once.       *)
(*                                                                         *)
(* Text is modelled as a sequence of tokens.  A token is one character     *)
(* ("/", ".", " ", "?", ":", a digit, "\r", "\n"), one percent escape      *)
(* ("%2e", "%2f") or a run of characters none of which is special to the   *)
(* code ("pub", "cgi-bin", "py", "Gone").  Every string operation of the   *)
(* code (split, strip, find, startswith, unquote, normpath, int) is        *)
(* computed on these sequences the way Python computes it on characters.   *)
(***************************************************************************)
EXTENDS Integers, Sequences, FiniteSets, TLC

(***************************************************************************)
(* Bounds of the model.                                                    *)
(***************************************************************************)
\* The request path is made of at most MaxSegs segments joined by "/".
MaxSegs == 3
\* The captured output of a gateway script starts with at most MaxHeaders
\* header lines.
MaxHeaders == 2

(***************************************************************************)
(* String operations (Python's, on token sequences).                       *)
(***************************************************************************)
CR == "\r"
LF == "\n"

\* s[i:] of Python with i one-based: the tokens from position i on.
From(s, i) == SubSeq(s, i, Len(s))

\* s.startswith(p)
StartsWith(s, p) == Len(s) >= Len(p) /\ SubSeq(s, 1, Len(p)) = p

\* s.find(p): the one-based position of the first occurrence of p in s;
\* 0 where Python answers -1.
Find(s, p) ==
    LET hits == {i \in 1..(Len(s) - Len(p) + 1) : SubSeq(s, i, i + Len(p) - 1) = p}
    IN  IF hits = {} THEN 0 ELSE CHOOSE i \in hits : \A j \in hits : i <= j

\* s.rfind(p) for a single token p; 0 when absent.
RFindTok(s, t) ==
    LET hits == {i \in 1..Len(s) : s[i] = t}
    IN  IF hits = {} THEN 0 ELSE CHOOSE i \in hits : \A j \in hits : i >= j

\* s.strip(chars): leading and trailing tokens of the set chars removed.
RECURSIVE LStrip(_, _)
LStrip(s, chars) ==
    IF s # <<>> /\ Head(s) \in chars THEN LStrip(Tail(s), chars) ELSE s

RECURSIVE RStrip(_, _)
RStrip(s, chars) ==
    IF s # <<>> /\ s[Len(s)] \in chars THEN RStrip(SubSeq(s, 1, Len(s) - 1), chars) ELSE s

Strip(s, chars) == RStrip(LStrip(s, chars), chars)

\* bytes.strip() / str.strip() with no argument: ASCII whitespace.
Whitespace == {" ", CR, LF}

\* s.split(sep, maxsplit) for a single-token separator; maxsplit = -1 is
\* unlimited.  "".split(" ") is [""].
RECURSIVE SplitMax(_, _, _)
SplitMax(s, sep, max) ==
    LET i == Find(s, <<sep>>)
    IN  IF i = 0 \/ max = 0
        THEN <<s>>
        ELSE <<SubSeq(s, 1, i - 1)>> \o SplitMax(From(s, i + 1), sep, max - 1)

Split(s, sep) == SplitMax(s, sep, -1)

\* sep.join(parts)
RECURSIVE Join(_, _)
Join(parts, sep) ==
    IF parts = <<>> THEN <<>>
    ELSE IF Len(parts) = 1 THEN parts[1]
    ELSE parts[1] \o <<sep>> \o Join(Tail(parts), sep)

\* The concatenation of a sequence of strings.
RECURSIVE Concat(_)
Concat(parts) == IF parts = <<>> THEN <<>> ELSE Head(parts) \o Concat(Tail(parts))

\* str.lower() on the header names the code compares.
LowerTok(t) ==
    CASE t = "Status" -> "status"
      [] t = "Content-Type" -> "content-type"
      [] OTHER -> t

Lower(s) == [i \in 1..Len(s) |-> LowerTok(s[i])]

\* urllib.parse.unquote: every percent escape becomes the character it names.
unquoteTok(t) ==
    CASE t = "%2e" -> "."
      [] t = "%2f" -> "/"
      [] OTHER -> t

unquote(s) == [i \in 1..Len(s) |-> unquoteTok(s[i])]

Digits == {"0", "1", "2", "3", "4", "5", "6", "7", "8", "9"}

DigitVal(d) ==
    CASE d = "0" -> 0 [] d = "1" -> 1 [] d = "2" -> 2 [] d = "3" -> 3 [] d = "4" -> 4
      [] d = "5" -> 5 [] d = "6" -> 6 [] d = "7" -> 7 [] d = "8" -> 8 [] d = "9" -> 9

\* bytes.isdigit(): non-empty and all digits.
IsDigits(s) == s # <<>> /\ \A i \in 1..Len(s) : s[i] \in Digits

\* The value of a non-empty digit string.
RECURSIVE DigitsVal(_)
DigitsVal(s) ==
    IF s = <<>> THEN 0 ELSE 10 * DigitsVal(SubSeq(s, 1, Len(s) - 1)) + DigitVal(s[Len(s)])

\* int(s) accepts surrounding whitespace and one sign; anything else raises.
IntParses(s) ==
    LET t == Strip(s, Whitespace)
    IN  \/ IsDigits(t)
        \/ t # <<>> /\ Head(t) \in {"-", "+"} /\ IsDigits(Tail(t))

IntOf(s) ==
    LET t == Strip(s, Whitespace)
    IN  IF Head(t) = "-" THEN 0 - DigitsVal(Tail(t))
        ELSE IF Head(t) = "+" THEN DigitsVal(Tail(t))
        ELSE DigitsVal(t)

\* Python's floor division by a positive number.
FloorDiv(a, b) == IF a >= 0 THEN a \div b ELSE 0 - ((0 - a + b - 1) \div b)

(***************************************************************************)
(* os.path.normpath (posixpath), the lexical normalisation both servers    *)
(* apply to the request path.                                              *)
(***************************************************************************)
DOT == <<".">>
DOTDOT == <<".", ".">>

\* 0, 1 or 2 leading slashes are kept by normpath (three or more count as 1).
InitialSlashes(p) ==
    IF ~StartsWith(p, <<"/">>) THEN 0
    ELSE IF StartsWith(p, <<"/", "/">>) /\ ~StartsWith(p, <<"/", "/", "/">>) THEN 2
    ELSE 1

RECURSIVE NormComps(_, _, _)
NormComps(comps, new, slashes) ==
    IF comps = <<>> THEN new
    ELSE LET c == Head(comps)
             rest == Tail(comps)
         IN  IF c = <<>> \/ c = DOT
             THEN NormComps(rest, new, slashes)
             ELSE IF \/ c # DOTDOT
                     \/ (slashes = 0 /\ new = <<>>)
                     \/ (new # <<>> /\ new[Len(new)] = DOTDOT)
             THEN NormComps(rest, Append(new, c), slashes)
             ELSE IF new # <<>>
             THEN NormComps(rest, SubSeq(new, 1, Len(new) - 1), slashes)
             ELSE NormComps(rest, new, slashes)

normpath(p) ==
    IF p = <<>> THEN DOT
    ELSE LET slashes == InitialSlashes(p)
             joined == Join(NormComps(Split(p, "/"), <<>>, slashes), "/")
             out == [i \in 1..slashes |-> "/"] \o joined
         IN  IF out = <<>> THEN DOT ELSE out

(***************************************************************************)
(* The served tree.  A path is the sequence of names below Root; Root is   *)
(* <<>>.  root = args.dir.resolve(strict=True) is fixed at start-up.       *)
(***************************************************************************)
PUB == <<"pub">>
CGIBIN == <<"cgi-bin">>
SPY == <<"s", ".", "py">>
XBIN == <<"x">>
INDEX == <<"index", ".", "gmi">>

Dirs == {<<>>, <<PUB>>, <<CGIBIN>>}
Files == {<<PUB, INDEX>>, <<CGIBIN, SPY>>, <<CGIBIN, XBIN>>}

\* Path.is_file() / Path.is_dir()
IsFile(p) == p \in Files
IsDir(p) == p \in Dirs

\* The entries Path.iterdir() yields for a directory (in some order).
Children(d) == {p \in Dirs \cup Files : Len(p) = Len(d) + 1 /\ SubSeq(p, 1, Len(d)) = d}

\* Permission bits of the regular files at start-up.
InitMode == [p \in Files |-> IF p = <<CGIBIN, XBIN>> THEN "0700" ELSE "0644"]

\* PurePath.suffix: the name's last "." and what follows it, unless the name
\* starts or ends with that dot.
Suffix(name) ==
    LET i == RFindTok(name, ".")
    IN  IF i > 1 /\ i < Len(name) THEN From(name, i) ELSE <<>>

\* mimetypes.guess_type(filepath, strict=False), with text/gemini added for
\* ".gmi"; None becomes application/octet-stream in write_file.
guess_type(p) ==
    LET ext == IF p = <<>> THEN <<>> ELSE Suffix(p[Len(p)])
    IN  CASE ext = <<".", "gmi">> -> <<"text/gemini">>
          [] ext = <<".", "py">> -> <<"text/x-python">>
          [] OTHER -> <<"application/octet-stream">>

\* The contents of a regular file, as the bytes write_file copies.
Contents(p) == <<"bytes of ">> \o Join(p, "/")

(***************************************************************************)
(* Request lines a client may send.                                        *)
(***************************************************************************)
Segs == {<<>>, DOT, DOTDOT, <<"%2e", "%2e">>, PUB, CGIBIN, SPY, XBIN}

\* Path fields: up to MaxSegs segments joined by "/", with or without a
\* query component.
RawPaths ==
    LET plain == {Join(f, "/") : f \in UNION {[1..n -> Segs] : n \in 1..MaxSegs}}
    IN  plain \cup {p \o <<"?", "q">> : p \in plain}

Line(fields) == Join(fields, " ") \o <<CR, LF>>

\* "<hostname> <path> <content-length>\r\n" for every path field.
WellFormedLines == {Line(<<(<<"h">>), p, (<<"0">>)>>) : p \in RawPaths}

\* A few path fields that reach every branch of the dispatch.
BasePaths ==
    { <<"/">> \o PUB, <<"/">> \o PUB \o <<"/">>, <<"/">> \o CGIBIN \o <<"/">>,
      <<"/">> \o CGIBIN \o <<"/">> \o SPY, <<"/">> \o CGIBIN \o <<"/">> \o XBIN,
      <<"/">> \o SPY, <<"/">> \o DOTDOT \o <<"/">> \o XBIN }

\* Lines with another field count or another content-length field.
OddLines ==
    {Line(<<(<<"h">>)>>), Line(<<>>)}
    \cup {Line(<<(<<"h">>), p>>) : p \in BasePaths}
    \cup {Line(<<(<<"h">>), p, c>>) :
            p \in BasePaths, c \in {<<"abc">>, <<"-", "1">>, <<"0", " ", "extra">>, <<>>}}

Requests == WellFormedLines \cup OddLines
FewRequests == {Line(<<(<<"h">>), p, (<<"0">>)>>) : p \in BasePaths} \cup {Line(<<(<<"h">>)>>)}

(***************************************************************************)
(* What a script under cgi-bin does when it is run: what it prints to      *)
(* standard output and standard error, and how it ends.                    *)
(*   "ok"    runs to completion (exit code 0)                              *)
(*   "fail"  raises an exception / exits with a non-zero code              *)
(*   "exit"  calls sys.exit() (in-process: raises SystemExit)              *)
(*   "hang"  never terminates                                              *)
(*   "noexec" cannot be started: the file cannot be executed (external),   *)
(*            or cannot be opened or compiled (in-process)                 *)
(***************************************************************************)
Ends == {"ok", "fail", "exit", "hang", "noexec"}

ExampleOut ==
    <<"Status", ":", " ", "4", "0", "4", " ", "Not Found", CR, LF,
      "Content-Type", ":", " ", "text/plain", CR, LF, CR, LF, "Gone">>

LegacyOut == <<"2", " ", "text/gemini", LF, "Gone">>

Behaviour(o, e, x) == [out |-> o, err |-> e, end |-> x]

FewScripts ==
    {Behaviour(o, <<>>, "ok") : o \in {ExampleOut, LegacyOut}}
    \cup {Behaviour(ExampleOut, <<"oops">>, x) : x \in Ends}

\* Header lines a script may print, each with its line ending; the last
\* two are the pre-formatted status lines cgi.py expects instead.
HeaderLines ==
    { <<"Status", ":", " ", "4", "0", "4", " ", "Not Found", CR, LF>>,
      <<"Status", ":", " ", "1", "0", "0", LF>>,
      <<"Content-Type", ":", " ", "text/plain", CR, LF>>,
      <<"Content-Type", ":", " ", "text/gemini", LF>>,
      <<"2", " ", "text/gemini", LF>>,
      <<"2", "0", " ", "text/gemini", LF>> }

\* What follows the header lines: nothing, or the line ending that makes
\* the blank line.
Separators == {<<>>, <<LF>>, <<CR, LF>>}

Bodies ==
    { <<>>, <<"Gone">>, <<"Go", CR, LF, CR, LF, "ne">>, <<"Go", LF, LF, "ne">>,
      <<LF, "Gone", LF>> }

\* Captured outputs: up to MaxHeaders header lines, a separator, a body.
Outputs ==
    {Concat(h) \o sep \o body :
        h \in UNION {[1..n -> HeaderLines] : n \in 0..MaxHeaders},
        sep \in Separators, body \in Bodies}

ManyScripts ==
    {Behaviour(o, <<>>, "ok") : o \in Outputs}
    \cup {Behaviour(ExampleOut, <<"oops">>, x) : x \in Ends}

(***************************************************************************)
(* State.                                                                  *)
(***************************************************************************)
Workers == {1, 2}

VARIABLES
    server,       \* which program runs: "spartan" or "legacy"
    enable_cgi,   \* SpartanRequestHandler.enable_cgi / args.cgi
    catalogue,    \* the behaviours the scripts under cgi-bin may show
    mode,         \* permission bits of the regular files under Root
    sys_std,      \* sys.stdout, sys.stderr, sys.stdin: the stream objects installed
    stream,       \* contents of the in-memory stream objects
    os_environ,   \* the process environment
    pc,           \* each worker's position in handle
    request,      \* the line the worker's client sent
    path,         \* _handle's local path
    query,        \* cgi.py: query_string
    filepath,     \* _handle's local filepath, relative to Root
    wire,         \* what the worker has written to its connection
    fsLog,        \* the filesystem calls the worker has made
    script,       \* the behaviour of the script the worker runs
    env,          \* run_cgi_*'s local env
    old,          \* run_cgi_python's old_stdout, old_stderr, old_stdin
    captured,     \* out_bytes/stdout and err_text/stderr of the gateway run
    seen,         \* the environment the worker's script was run with
    raised        \* the exception that left handle, if any

vars == <<server, enable_cgi, catalogue, mode, sys_std, stream, os_environ, pc,
          request, path, query, filepath, wire, fsLog, script, env, old, captured,
          seen, raised>>

(***************************************************************************)
(* What is written to a connection: status lines and body bytes, in the    *)
(* order of the writes.                                                    *)
(***************************************************************************)
StatusLine(c, m) == [t |-> "status", code |-> c, text |-> m]
BodyBytes(b) == [t |-> "body", code |-> 0, text |-> b]

\* write_status(code, meta): one "<code> <meta>\r\n" line.
write_status(conn, c, m) == Append(conn, StatusLine(c, m))

\* write_line(text) and wfile.write(bytes)
write_line(conn, text) == Append(conn, BodyBytes(text \o <<LF>>))
write_bytes(conn, b) == Append(conn, BodyBytes(b))

\* A filesystem call.
Call(op, p) == [op |-> op, path |-> p]

\* The stream objects of the server process itself, and the in-memory ones
\* run_cgi_python creates for worker w.
Console == [out |-> "stdout0", err |-> "stderr0", in |-> "stdin0"]
Buffers(w) ==
    IF w = 1 THEN [out |-> "out1", err |-> "err1", in |-> "in1"]
    ELSE [out |-> "out2", err |-> "err2", in |-> "in2"]
BufferIds == UNION {{Buffers(w).out, Buffers(w).err} : w \in Workers}

\* print(text): text is appended to whatever sys.stdout is at that moment;
\* what reaches the process's own console is not kept.
print(text) ==
    IF sys_std.out \in BufferIds
    THEN [stream EXCEPT ![sys_std.out] = @ \o text]
    ELSE stream

\* The request-log line both _handle methods print.
LogLine(req) == <<"[now]", " ", "\"">> \o req \o <<"\"", LF>>

(***************************************************************************)
(* handle: what reaches the client when _handle raises.                    *)
(*   ValueError  -> write_status(4, str(e))                                *)
(*   Exception   -> write_status(5, ...) and the exception is re-raised    *)
(*   SystemExit  -> not an Exception: nothing is written, it propagates    *)
(***************************************************************************)
NoExc == "none"

handle_except(conn, exc, msg) ==
    CASE exc = "ValueError" -> write_status(conn, 4, msg)
      [] exc = "Exception" -> write_status(conn, 5, <<"An unexpected error has occurred">>)
      [] OTHER -> conn

handle_reraise(exc) == IF exc = "ValueError" THEN NoExc ELSE exc

\* _handle ends by raising exc(msg) into handle.
Raise(w, conn, exc, msg) ==
    /\ wire' = [wire EXCEPT ![w] = handle_except(conn, exc, msg)]
    /\ raised' = [raised EXCEPT ![w] = handle_reraise(exc)]
    /\ pc' = [pc EXCEPT ![w] = "done"]

\* _handle returns normally having written conn.
Return(w, conn) ==
    /\ wire' = [wire EXCEPT ![w] = conn]
    /\ raised' = raised
    /\ pc' = [pc EXCEPT ![w] = "done"]

(***************************************************************************)
(* Request parsing and path resolution.                                    *)
(***************************************************************************)
\* The check with its ".." prefix forgotten.
is_traversal_slash_only(safe) == StartsWith(safe, <<"/">>)

\* safe_path.startswith(("..", "/"))
is_traversal(safe) == StartsWith(safe, DOTDOT) \/ StartsWith(safe, <<"/">>)

\* root / safe_path: pathlib drops empty and "." components of the joined
\* relative path.  safe_path never starts with "/" here (it is stripped).
join_root(safe) == SelectSeq(Split(safe, "/"), LAMBDA c : c # <<>> /\ c # DOT)

\* path.endswith("/")
EndsWithSlash(p) == p # <<>> /\ p[Len(p)] = "/"

\* urllib.parse.urlparse(url): a leading "//" starts a network location that
\* runs to the next "/" or "?"; the query follows the first "?".  (The path
\* fields of the model hold no ":", "#" or ";".)
urlparse_rest(url) ==
    IF StartsWith(url, <<"/", "/">>)
    THEN LET after == From(url, 3)
             ends == {i \in 1..Len(after) : after[i] \in {"/", "?"}}
         IN  IF ends = {} THEN <<>>
             ELSE From(after, CHOOSE i \in ends : \A j \in ends : i <= j)
    ELSE url

urlparse_path(url) ==
    LET rest == urlparse_rest(url)
        q == Find(rest, <<"?">>)
    IN  IF q = 0 THEN rest ELSE SubSeq(rest, 1, q - 1)

urlparse_query(url) ==
    LET rest == urlparse_rest(url)
        q == Find(rest, <<"?">>)
    IN  IF q = 0 THEN <<>> ELSE From(rest, q + 1)

Unchanged_parse ==
    UNCHANGED <<server, enable_cgi, catalogue, mode, sys_std, os_environ, request,
                fsLog, script, env, old, captured, seen>>

\* spartan_cgi_server.py, _handle up to filepath = root / safe_path.
handle_parse(w) ==
    /\ server = "spartan"
    /\ pc[w] = "accept"
    /\ LET req == Strip(request[w], {CR, LF})
           fields == Split(req, " ")
       IN  /\ stream' = print(LogLine(req))
           /\ IF Len(fields) # 3
              THEN /\ Raise(w, wire[w], "ValueError", <<"Malformed request">>)
                   /\ UNCHANGED <<path, query, filepath>>
              ELSE IF fields[2] = <<>>
              THEN /\ Raise(w, wire[w], "ValueError", <<"Not Found">>)
                   /\ UNCHANGED <<path, query, filepath>>
              ELSE LET p == unquote(fields[2])
                       safe == normpath(Strip(p, {"/"}))
                   IN  IF is_traversal(safe)
                       THEN /\ Raise(w, wire[w], "ValueError", <<"Not Found">>)
                            /\ path' = [path EXCEPT ![w] = p]
                            /\ UNCHANGED <<query, filepath>>
                       ELSE /\ path' = [path EXCEPT ![w] = p]
                            /\ filepath' = [filepath EXCEPT ![w] = join_root(safe)]
                            /\ pc' = [pc EXCEPT ![w] = "dispatch"]
                            /\ UNCHANGED <<query, wire, raised>>
    /\ Unchanged_parse

\* cgi.py, _handle up to filepath = root / safe_path.
legacy_handle_parse(w) ==
    /\ server = "legacy"
    /\ pc[w] = "accept"
    /\ LET req == Strip(request[w], {CR, LF})
           fields == SplitMax(req, " ", 2)
       IN  /\ stream' = print(LogLine(req))
           /\ IF Len(fields) # 3
              THEN /\ Return(w, write_status(wire[w], 4,
                                 <<"Bad Request: Invalid Spartan request format">>))
                   /\ UNCHANGED <<path, query, filepath>>
              ELSE IF fields[2] = <<>>
              THEN /\ Return(w, write_status(wire[w], 4, <<"Not Found: Empty path in request">>))
                   /\ UNCHANGED <<path, query, filepath>>
              ELSE LET p == urlparse_path(fields[2])
                       q == urlparse_query(fields[2])
                       safe == normpath(Strip(unquote(p), {"/"}))
                   IN  /\ path' = [path EXCEPT ![w] = p]
                       /\ query' = [query EXCEPT ![w] = q]
                       /\ IF is_traversal(safe)
                          THEN /\ Return(w, write_status(wire[w], 4,
                                             <<"Not Found: Invalid path traversal attempt">>))
                               /\ UNCHANGED filepath
                          ELSE /\ filepath' = [filepath EXCEPT ![w] = join_root(safe)]
                               /\ pc' = [pc EXCEPT ![w] = "dispatch"]
                               /\ UNCHANGED <<wire, raised>>
    /\ Unchanged_parse

(***************************************************************************)
(* Dispatch among gateway execution, file transfer, redirect, listing and  *)
(* not-found.                                                              *)
(***************************************************************************)
\* PurePath.name of a path below Root (Root's own name plays no part).
NameOf(p) == IF p = <<>> THEN <<>> ELSE p[Len(p)]

HasPart(p, name) == \E i \in 1..Len(p) : p[i] = name

\* os.access(filepath, os.X_OK) for the server's user.
access_x(p) ==
    \/ IsDir(p)
    \/ IsFile(p) /\ mode[p] \in {"0700", "0755"}

\* spartan_cgi_server.py is_cgi.  (Root itself is taken not to lie below a
\* directory named cgi-bin.)
is_cgi(p) ==
    IF ~HasPart(p, CGIBIN) THEN FALSE
    ELSE IF Suffix(NameOf(p)) = <<".", "py">> THEN TRUE
    ELSE access_x(p) /\ IsFile(p)

\* The filesystem calls is_cgi makes.
is_cgi_calls(p) ==
    IF ~HasPart(p, CGIBIN) \/ Suffix(NameOf(p)) = <<".", "py">> THEN {}
    ELSE {Call("access", p)} \cup (IF access_x(p) THEN {Call("is_file", p)} ELSE {})

\* The calls of the elif chain after the gateway test.
static_calls(p, slash) ==
    {Call("is_file", p)}
    \cup (IF IsFile(p) THEN {} ELSE {Call("is_dir", p)})
    \cup (IF IsDir(p) /\ slash THEN {Call("is_file", Append(p, INDEX))} ELSE {})

Unchanged_dispatch ==
    UNCHANGED <<server, enable_cgi, catalogue, mode, sys_std, stream, os_environ,
                request, path, query, script, env, old, captured, seen>>

\* The elif chain with the index.gmi branch forgotten: a directory requested
\* with a trailing slash is always listed.
static_dispatch_no_index(w, fp) ==
    IF IsFile(fp)
    THEN /\ pc' = [pc EXCEPT ![w] = "write_file"]
         /\ UNCHANGED <<filepath, wire, raised>>
    ELSE IF ~EndsWithSlash(path[w])
    THEN /\ Return(w, write_status(wire[w], 3, path[w] \o <<"/">>))
         /\ UNCHANGED filepath
    ELSE /\ pc' = [pc EXCEPT ![w] = "listing"]
         /\ UNCHANGED <<filepath, wire, raised>>

\* The elif chain both servers share: file, directory (redirect, index.gmi,
\* listing).  The last branch differs and is the caller's.
static_dispatch(w, fp) ==
    IF IsFile(fp)
    THEN /\ pc' = [pc EXCEPT ![w] = "write_file"]
         /\ UNCHANGED <<filepath, wire, raised>>
    ELSE IF ~EndsWithSlash(path[w])
    THEN /\ Return(w, write_status(wire[w], 3, path[w] \o <<"/">>))
         /\ UNCHANGED filepath
    ELSE IF IsFile(Append(fp, INDEX))
    THEN /\ pc' = [pc EXCEPT ![w] = "write_file"]
         /\ filepath' = [filepath EXCEPT ![w] = Append(fp, INDEX)]
         /\ UNCHANGED <<wire, raised>>
    ELSE /\ pc' = [pc EXCEPT ![w] = "listing"]
         /\ UNCHANGED <<filepath, wire, raised>>

\* The dispatch with the enable_cgi test forgotten.
handle_dispatch_always_cgi(w) ==
    /\ server = "spartan"
    /\ pc[w] = "dispatch"
    /\ LET fp == filepath[w]
           cgi == is_cgi(fp) /\ IsFile(fp)
           gw_calls == is_cgi_calls(fp)
                       \cup (IF is_cgi(fp) THEN {Call("is_file", fp)} ELSE {})
       IN  IF cgi
           THEN /\ fsLog' = [fsLog EXCEPT ![w] = @ \cup gw_calls]
                /\ pc' = [pc EXCEPT ![w] =
                            IF Suffix(NameOf(fp)) = <<".", "py">> THEN "py_env" ELSE "exec_spawn"]
                /\ UNCHANGED <<filepath, wire, raised>>
           ELSE /\ fsLog' = [fsLog EXCEPT ![w] =
                                @ \cup gw_calls \cup static_calls(fp, EndsWithSlash(path[w]))]
                /\ IF IsFile(fp) \/ IsDir(fp)
                   THEN static_dispatch(w, fp)
                   ELSE /\ Raise(w, wire[w], "ValueError", <<"Not Found">>)
                        /\ UNCHANGED filepath
    /\ Unchanged_dispatch

\* spartan_cgi_server.py, _handle from "Decide on CGI execution".
handle_dispatch(w) ==
    /\ server = "spartan"
    /\ pc[w] = "dispatch"
    /\ LET fp == filepath[w]
           cgi == enable_cgi /\ is_cgi(fp) /\ IsFile(fp)
           gw_calls == IF ~enable_cgi THEN {}
                       ELSE is_cgi_calls(fp)
                            \cup (IF is_cgi(fp) THEN {Call("is_file", fp)} ELSE {})
       IN  IF cgi
           THEN /\ fsLog' = [fsLog EXCEPT ![w] = @ \cup gw_calls]
                /\ pc' = [pc EXCEPT ![w] =
                            IF Suffix(NameOf(fp)) = <<".", "py">> THEN "py_env" ELSE "exec_spawn"]
                /\ UNCHANGED <<filepath, wire, raised>>
           ELSE /\ fsLog' = [fsLog EXCEPT ![w] =
                                @ \cup gw_calls \cup static_calls(fp, EndsWithSlash(path[w]))]
                /\ IF IsFile(fp) \/ IsDir(fp)
                   THEN static_dispatch(w, fp)
                   ELSE /\ Raise(w, wire[w], "ValueError", <<"Not Found">>)
                        /\ UNCHANGED filepath
    /\ Unchanged_dispatch

\* cgi.py, _handle from "if args.cgi and ...".
legacy_handle_dispatch(w) ==
    /\ server = "legacy"
    /\ pc[w] = "dispatch"
    /\ LET fp == filepath[w]
           cgi == enable_cgi /\ IsFile(fp) /\ access_x(fp)
           gw_calls == IF ~enable_cgi THEN {}
                       ELSE {Call("is_file", fp)}
                            \cup (IF IsFile(fp) THEN {Call("access", fp)} ELSE {})
       IN  IF cgi
           THEN /\ fsLog' = [fsLog EXCEPT ![w] = @ \cup gw_calls]
                /\ pc' = [pc EXCEPT ![w] = "legacy_spawn"]
                /\ UNCHANGED <<filepath, wire, raised>>
           ELSE /\ fsLog' = [fsLog EXCEPT ![w] =
                                @ \cup gw_calls \cup static_calls(fp, EndsWithSlash(path[w]))]
                /\ IF IsFile(fp) \/ IsDir(fp)
                   THEN static_dispatch(w, fp)
                   ELSE /\ Return(w, write_status(wire[w], 4,
                                      <<"Not Found: File or directory does not exist">>))
                        /\ UNCHANGED filepath
    /\ Unchanged_dispatch

(***************************************************************************)
(* File transfer and directory listing.                                    *)
(***************************************************************************)
\* What can go wrong reading the served tree: nothing, the open fails
\* (e.g. no read permission), or a read fails after the open.
ReadFaults == {"none", "open", "read"}

Unchanged_static ==
    UNCHANGED <<server, enable_cgi, catalogue, mode, sys_std, stream, os_environ,
                request, path, query, filepath, script, env, old, captured, seen>>

\* write_file(filepath) of either server: guess the type, open, status line,
\* copy.  An OSError raised by open or by the copy reaches handle.
write_file_run(w) ==
    /\ pc[w] = "write_file"
    /\ fsLog' = [fsLog EXCEPT ![w] = @ \cup {Call("open", filepath[w])}]
    /\ \E fault \in ReadFaults :
         LET started == write_status(wire[w], 2, guess_type(filepath[w]))
         IN  CASE fault = "open" -> Raise(w, wire[w], "Exception", <<>>)
               [] fault = "read" -> Raise(w, started, "Exception", <<>>)
               [] OTHER -> Return(w, write_bytes(started, Contents(filepath[w])))
    /\ Unchanged_static

write_file(w) == server = "spartan" /\ write_file_run(w)

legacy_write_file(w) == server = "legacy" /\ write_file_run(w)

\* The orders in which iterdir may yield the entries.
Orders(S) == {f \in [1..Cardinality(S) -> S] : \A i, j \in 1..Cardinality(S) : f[i] = f[j] => i = j}

\* Code-point order of the (lower-cased) tokens names are made of.
TokRank(t) ==
    CASE t = "." -> 0 [] t = "cgi-bin" -> 1 [] t = "gmi" -> 2 [] t = "index" -> 3
      [] t = "pub" -> 4 [] t = "py" -> 5 [] t = "s" -> 6 [] t = "x" -> 7 [] OTHER -> 8

RECURSIVE StrLess(_, _)
StrLess(a, b) ==
    IF b = <<>> THEN FALSE
    ELSE IF a = <<>> THEN TRUE
    ELSE IF TokRank(Head(a)) # TokRank(Head(b)) THEN TokRank(Head(a)) < TokRank(Head(b))
    ELSE StrLess(Tail(a), Tail(b))

\* key=lambda c: (not c.is_dir(), c.name.lower())
KeyLess(a, b) ==
    IF IsDir(a) # IsDir(b) THEN IsDir(a)
    ELSE StrLess(Lower(NameOf(a)), Lower(NameOf(b)))

\* sorted(...): stable.
RECURSIVE Insert(_, _)
Insert(sortedSeq, x) ==
    IF sortedSeq = <<>> THEN <<x>>
    ELSE IF KeyLess(x, Head(sortedSeq)) THEN <<x>> \o sortedSeq
    ELSE <<Head(sortedSeq)>> \o Insert(Tail(sortedSeq), x)

RECURSIVE Sorted(_)
Sorted(seq) ==
    IF seq = <<>> THEN <<>> ELSE Insert(Sorted(SubSeq(seq, 1, Len(seq) - 1)), seq[Len(seq)])

EntryLine(child) ==
    IF IsDir(child) THEN <<"=>">> \o NameOf(child) \o <<"/">> ELSE <<"=>">> \o NameOf(child)

RECURSIVE write_entries(_, _)
write_entries(conn, children) ==
    IF children = <<>> THEN conn
    ELSE write_entries(write_line(conn, EntryLine(Head(children))), Tail(children))

listing_calls(d) == {Call("iterdir", d)} \cup {Call("is_dir", c) : c \in Children(d)}

\* spartan_cgi_server.py: the listing branch of _handle.
write_listing(w) ==
    /\ server = "spartan"
    /\ pc[w] = "listing"
    /\ \E order \in Orders(Children(filepath[w])), fault \in {"none", "read"} :
         LET started == write_status(wire[w], 2, <<"text/gemini">>)
         IN  IF fault = "read"
             THEN /\ Raise(w, started, "Exception", <<>>)
                  /\ fsLog' = [fsLog EXCEPT ![w] = @ \cup {Call("iterdir", filepath[w])}]
             ELSE /\ Return(w, write_entries(started, Sorted(order)))
                  /\ fsLog' = [fsLog EXCEPT ![w] = @ \cup listing_calls(filepath[w])]
    /\ Unchanged_static

\* cgi.py: the listing branch of _handle.
legacy_write_listing(w) ==
    /\ server = "legacy"
    /\ pc[w] = "listing"
    /\ \E order \in Orders(Children(filepath[w])), fault \in {"none", "read"} :
         LET started == write_line(write_status(wire[w], 2, <<"text/gemini">>), <<"=>", ".", ".">>)
         IN  IF fault = "read"
             THEN /\ Raise(w, started, "Exception", <<>>)
                  /\ fsLog' = [fsLog EXCEPT ![w] = @ \cup {Call("iterdir", filepath[w])}]
             ELSE /\ Return(w, write_entries(started, order))
                  /\ fsLog' = [fsLog EXCEPT ![w] = @ \cup listing_calls(filepath[w])]
    /\ Unchanged_static

(***************************************************************************)
(* The CGI environment.                                                    *)
(***************************************************************************)
EnvKeys ==
    {"PATH", "GATEWAY_INTERFACE", "SCRIPT_FILENAME", "SCRIPT_NAME", "REQUEST_METHOD",
     "SERVER_SOFTWARE", "SERVER_PROTOCOL", "REMOTE_ADDR", "SERVER_NAME", "SERVER_PORT",
     "QUERY_STRING"}

Unset == <<"(unset)">>

\* The environment the server process was started with.
EnvTemplate == [k \in EnvKeys |-> IF k = "PATH" THEN <<"/usr/bin">> ELSE Unset]

\* self.client_address[0] of the worker's connection.
ClientAddr(w) == IF w = 1 THEN <<"10.0.0.1">> ELSE <<"10.0.0.2">>

\* str(filepath)
PathStr(p) == <<"/srv/root">> \o Concat([i \in 1..Len(p) |-> <<"/">> \o p[i]])

\* env = os.environ.copy() followed by the assignments of run_cgi_python and
\* run_cgi_exec (the same nine in both).
cgi_env(base, w, fp) ==
    [k \in EnvKeys |->
        CASE k = "GATEWAY_INTERFACE" -> <<"CGI/1.1">>
          [] k = "SCRIPT_FILENAME" -> PathStr(fp)
          [] k = "SCRIPT_NAME" -> NameOf(fp)
          [] k = "REQUEST_METHOD" -> <<"GET">>
          [] k = "SERVER_SOFTWARE" -> <<"spartan_server.py">>
          [] k = "SERVER_PROTOCOL" -> <<"SPARTAN">>
          [] k = "REMOTE_ADDR" -> ClientAddr(w)
          [] k = "SERVER_NAME" -> <<"127.0.0.1">>
          [] k = "SERVER_PORT" -> <<"3000">>
          [] OTHER -> base[k]]

\* cgi.py: cgi_env = os.environ.copy() and its two assignments.
legacy_cgi_env(base, q) ==
    [k \in EnvKeys |->
        CASE k = "QUERY_STRING" -> q
          [] k = "REQUEST_METHOD" -> <<"GET">>
          [] OTHER -> base[k]]

\* os.environ.update(env)
environ_update(environ, e) == [k \in EnvKeys |-> IF e[k] = Unset THEN environ[k] ELSE e[k]]

(***************************************************************************)
(* Translation of captured gateway output (spartan_cgi_server.py; the same *)
(* code in run_cgi_python and run_cgi_exec).                               *)
(***************************************************************************)
CRLFCRLF == <<CR, LF, CR, LF>>
LFLF == <<LF, LF>>

\* The separator the code settles on: "\r\n\r\n" if it occurs anywhere,
\* else "\n\n".
split_seq(out) == IF Find(out, CRLFCRLF) # 0 THEN CRLFCRLF ELSE LFLF

header_end(out) == Find(out, split_seq(out))

\* str.splitlines(): lines end at "\r\n", "\r" or "\n"; no empty last line.
RECURSIVE splitlines(_)
splitlines(s) ==
    IF s = <<>> THEN <<>>
    ELSE LET brk == {i \in 1..Len(s) : s[i] \in {CR, LF}}
         IN  IF brk = {} THEN <<s>>
             ELSE LET i == CHOOSE k \in brk : \A j \in brk : k <= j
                      n == IF s[i] = CR /\ i < Len(s) /\ s[i + 1] = LF THEN 2 ELSE 1
                  IN  <<SubSeq(s, 1, i - 1)>> \o splitlines(From(s, i + n))

\* header.split(':', 1)[1].strip()
header_value(h) == Strip(SplitMax(h, ":", 1)[2], Whitespace)

\* The loop over the header lines: the last Content-Type and the last Status
\* win; has says whether status_line is not None.
RECURSIVE scan_headers(_, _)
scan_headers(headers, acc) ==
    IF headers = <<>> THEN acc
    ELSE LET h == Head(headers)
         IN  IF StartsWith(Lower(h), <<"content-type", ":">>)
             THEN scan_headers(Tail(headers), [acc EXCEPT !.ctype = header_value(h)])
             ELSE IF StartsWith(Lower(h), <<"status", ":">>)
             THEN scan_headers(Tail(headers),
                               [acc EXCEPT !.has = TRUE, !.status = header_value(h)])
             ELSE scan_headers(Tail(headers), acc)

\* code = int(parts[0]) // 100, or 2 when int raises or no Status was seen.
status_code(acc) ==
    IF ~acc.has THEN 2
    ELSE LET parts == SplitMax(acc.status, " ", 1)
         IN  IF IntParses(parts[1]) THEN FloorDiv(IntOf(parts[1]), 100) ELSE 2

\* The response for captured output out: status code, meta and body.
translate(out) ==
    LET he == header_end(out)
        headers == IF he # 0 THEN splitlines(SubSeq(out, 1, he - 1)) ELSE <<>>
        body == IF he # 0 THEN From(out, he + Len(split_seq(out))) ELSE out
        acc == scan_headers(headers, [ctype |-> <<"text/plain">>, has |-> FALSE, status |-> <<>>])
    IN  [code |-> status_code(acc), meta |-> acc.ctype, body |-> body]

\* self.write_status(code, meta); self.wfile.write(body_bytes)
respond(conn, out) ==
    LET r == translate(out)
    IN  write_bytes(write_status(conn, r.code, r.meta), r.body)

\* except Exception as e: self.write_status(5, f"CGI Error: {e}")
cgi_error(conn) == write_status(conn, 5, <<"CGI Error: ">>)

(***************************************************************************)
(* run_cgi_python (spartan_cgi_server.py): the script runs inside the      *)
(* server process.  The steps are the points at which the worker reads or  *)
(* writes state shared by all workers (os.environ, sys.stdout/stderr/stdin *)
(* and the stream objects behind them).                                    *)
(***************************************************************************)
NoScript == Behaviour(<<>>, <<>>, "none")
NoStreams == [out |-> "none", err |-> "none", in |-> "none"]
NoEnv == [k \in EnvKeys |-> Unset]
NoCapture == [out |-> <<>>, err |-> <<>>]

\* env = os.environ.copy(); env[...] = ...
run_cgi_python_env(w) ==
    /\ pc[w] = "py_env"
    /\ env' = [env EXCEPT ![w] = cgi_env(os_environ, w, filepath[w])]
    /\ pc' = [pc EXCEPT ![w] = "py_save"]
    /\ UNCHANGED <<server, enable_cgi, catalogue, mode, sys_std, stream, os_environ, request,
                   path, query, filepath, wire, fsLog, script, old, captured, seen, raised>>

\* old_stdout = sys.stdout; old_stderr = sys.stderr; old_stdin = sys.stdin
run_cgi_python_save(w) ==
    /\ pc[w] = "py_save"
    /\ old' = [old EXCEPT ![w] = sys_std]
    /\ pc' = [pc EXCEPT ![w] = "py_redirect"]
    /\ UNCHANGED <<server, enable_cgi, catalogue, mode, sys_std, stream, os_environ, request,
                   path, query, filepath, wire, fsLog, script, env, captured, seen, raised>>

\* sys.stdout = io.TextIOWrapper(io.BytesIO(), ...); likewise stderr, stdin
run_cgi_python_redirect(w) ==
    /\ pc[w] = "py_redirect"
    /\ sys_std' = Buffers(w)
    /\ stream' = [stream EXCEPT ![Buffers(w).out] = <<>>, ![Buffers(w).err] = <<>>]
    /\ pc' = [pc EXCEPT ![w] = "py_environ"]
    /\ UNCHANGED <<server, enable_cgi, catalogue, mode, os_environ, request, path, query,
                   filepath, wire, fsLog, script, env, old, captured, seen, raised>>

\* os.environ.update(env)
run_cgi_python_environ(w) ==
    /\ pc[w] = "py_environ"
    /\ os_environ' = environ_update(os_environ, env[w])
    /\ pc' = [pc EXCEPT ![w] = "py_exec"]
    /\ UNCHANGED <<server, enable_cgi, catalogue, mode, sys_std, stream, request, path, query,
                   filepath, wire, fsLog, script, env, old, captured, seen, raised>>

\* What a script's print() calls and writes to sys.stderr reach: the stream
\* objects installed while it runs.
script_writes(b) ==
    LET s1 == IF sys_std.out \in BufferIds
              THEN [stream EXCEPT ![sys_std.out] = @ \o b.out] ELSE stream
    IN  IF sys_std.err \in BufferIds THEN [s1 EXCEPT ![sys_std.err] = @ \o b.err] ELSE s1

\* open, compile and exec(code, script_globals).  A failure that is an
\* Exception is caught by run_cgi_python's except clause; SystemExit is not
\* an Exception and leaves run_cgi_python, _handle and handle.
run_cgi_python_exec(w) ==
    /\ pc[w] = "py_exec"
    /\ fsLog' = [fsLog EXCEPT ![w] = @ \cup {Call("open", filepath[w])}]
    /\ seen' = [seen EXCEPT ![w] = os_environ]
    /\ \E b \in catalogue :
         /\ script' = [script EXCEPT ![w] = b]
         /\ stream' = IF b.end = "noexec" THEN stream ELSE script_writes(b)
         /\ CASE b.end = "ok" -> /\ pc' = [pc EXCEPT ![w] = "py_collect"]
                                 /\ UNCHANGED <<wire, raised>>
              [] b.end = "hang" -> /\ pc' = [pc EXCEPT ![w] = "py_hung"]
                                   /\ UNCHANGED <<wire, raised>>
              [] b.end = "exit" -> Raise(w, wire[w], "SystemExit", <<>>)
              [] OTHER -> Return(w, cgi_error(wire[w]))
    /\ UNCHANGED <<server, enable_cgi, catalogue, mode, sys_std, os_environ, request, path,
                   query, filepath, env, old, captured>>

\* flush; out_bytes = sys.stdout.buffer.getvalue(); err_text = ...
\* The process's own console streams have no getvalue: AttributeError.
run_cgi_python_collect(w) ==
    /\ pc[w] = "py_collect"
    /\ IF sys_std.out \in BufferIds /\ sys_std.err \in BufferIds
       THEN /\ captured' = [captured EXCEPT ![w] =
                               [out |-> stream[sys_std.out], err |-> stream[sys_std.err]]]
            /\ pc' = [pc EXCEPT ![w] = "py_restore"]
            /\ UNCHANGED <<wire, raised>>
       ELSE /\ Return(w, cgi_error(wire[w]))
            /\ UNCHANGED captured
    /\ UNCHANGED <<server, enable_cgi, catalogue, mode, sys_std, stream, os_environ, request,
                   path, query, filepath, fsLog, script, env, old, seen>>

\* sys.stdout = old_stdout; sys.stderr = old_stderr; sys.stdin = old_stdin
run_cgi_python_restore(w) ==
    /\ pc[w] = "py_restore"
    /\ sys_std' = old[w]
    /\ pc' = [pc EXCEPT ![w] = "py_respond"]
    /\ UNCHANGED <<server, enable_cgi, catalogue, mode, stream, os_environ, request, path,
                   query, filepath, wire, fsLog, script, env, old, captured, seen, raised>>

\* Parse headers/body, write the status line and the body, log stderr.
run_cgi_python_respond(w) ==
    /\ pc[w] = "py_respond"
    /\ Return(w, respond(wire[w], captured[w].out))
    /\ stream' = IF captured[w].err # <<>>
                 THEN print(<<"CGI script stderr: ">> \o captured[w].err \o <<LF>>)
                 ELSE stream
    /\ UNCHANGED <<server, enable_cgi, catalogue, mode, sys_std, os_environ, request, path,
                   query, filepath, fsLog, script, env, old, captured, seen>>

(***************************************************************************)
(* run_cgi_exec (spartan_cgi_server.py): the script runs as a child        *)
(* process; communicate waits at most 10 seconds for it.                   *)
(***************************************************************************)
\* env = os.environ.copy(); ...; proc = subprocess.Popen([str(filepath)], env=env)
run_cgi_exec_spawn(w) ==
    /\ pc[w] = "exec_spawn"
    /\ env' = [env EXCEPT ![w] = cgi_env(os_environ, w, filepath[w])]
    /\ seen' = [seen EXCEPT ![w] = cgi_env(os_environ, w, filepath[w])]
    /\ fsLog' = [fsLog EXCEPT ![w] = @ \cup {Call("exec", filepath[w])}]
    /\ \E b \in catalogue :
         /\ script' = [script EXCEPT ![w] = b]
         /\ IF b.end = "noexec"
            THEN Return(w, cgi_error(wire[w]))
            ELSE /\ pc' = [pc EXCEPT ![w] = "exec_wait"]
                 /\ UNCHANGED <<wire, raised>>
    /\ UNCHANGED <<server, enable_cgi, catalogue, mode, sys_std, stream, os_environ, request,
                   path, query, filepath, old, captured>>

\* stdout, stderr = proc.communicate(timeout=10) returns: the script has
\* terminated (its exit code is not looked at); translate and respond.
run_cgi_exec_communicate(w) ==
    /\ pc[w] = "exec_wait"
    /\ script[w].end # "hang"
    /\ captured' = [captured EXCEPT ![w] = [out |-> script[w].out, err |-> script[w].err]]
    /\ Return(w, respond(wire[w], script[w].out))
    /\ stream' = IF script[w].err # <<>>
                 THEN print(<<"CGI exec script stderr: ">> \o script[w].err \o <<LF>>)
                 ELSE stream
    /\ UNCHANGED <<server, enable_cgi, catalogue, mode, sys_std, os_environ, request, path,
                   query, filepath, fsLog, script, env, old, seen>>

\* communicate raises TimeoutExpired: the script has not terminated in time.
run_cgi_exec_timeout(w) ==
    /\ pc[w] = "exec_wait"
    /\ script[w].end = "hang"
    /\ Return(w, cgi_error(wire[w]))
    /\ UNCHANGED <<server, enable_cgi, catalogue, mode, sys_std, stream, os_environ, request,
                   path, query, filepath, fsLog, script, env, old, captured, seen>>

(***************************************************************************)
(* run_cgi (cgi.py): the script runs as a child process with               *)
(* subprocess.run(..., check=True) and no timeout; it prints the protocol  *)
(* status line itself.                                                     *)
(***************************************************************************)
\* os.chmod(filepath, 0o755); cgi_env = ...; subprocess.run starts the child.
legacy_run_cgi_spawn(w) ==
    /\ server = "legacy"
    /\ pc[w] = "legacy_spawn"
    /\ mode' = [mode EXCEPT ![filepath[w]] = "0755"]
    /\ env' = [env EXCEPT ![w] = legacy_cgi_env(os_environ, query[w])]
    /\ seen' = [seen EXCEPT ![w] = legacy_cgi_env(os_environ, query[w])]
    /\ fsLog' = [fsLog EXCEPT ![w] = @ \cup {Call("chmod", filepath[w]), Call("exec", filepath[w])}]
    /\ \E b \in catalogue :
         /\ script' = [script EXCEPT ![w] = b]
         /\ IF b.end = "noexec"
            THEN Return(w, write_status(wire[w], 4, <<"CGI script not found or not executable">>))
            ELSE /\ pc' = [pc EXCEPT ![w] = "legacy_wait"]
                 /\ UNCHANGED <<wire, raised>>
    /\ UNCHANGED <<server, enable_cgi, catalogue, sys_std, stream, os_environ, request, path,
                   query, filepath, old, captured>>

\* The response cgi.py builds from the standard output of a script that
\* exited with code 0.
legacy_respond(conn, stdout) ==
    LET out == Strip(stdout, Whitespace)
        nl == Find(out, <<LF>>)
    IN  IF nl = 0
        THEN write_status(conn, 5, <<"CGI script produced no output or invalid format">>)
        ELSE LET status_line == Strip(SubSeq(out, 1, nl - 1), Whitespace)
                 body == From(out, nl + 1)
                 parts == SplitMax(status_line, " ", 1)
             IN  IF Len(parts) < 2 \/ ~IsDigits(parts[1])
                 THEN write_status(conn, 5, <<"CGI script produced invalid status line format">>)
                 ELSE write_bytes(write_status(conn, DigitsVal(parts[1]), parts[2]), body)

\* except subprocess.CalledProcessError as e
legacy_script_error(conn, stderr) ==
    LET msg == Strip(stderr, Whitespace)
    IN  write_status(conn, 5, <<"CGI script error: ">>
                              \o (IF msg = <<>> THEN <<"Unknown error">> ELSE msg))

\* subprocess.run returns or raises CalledProcessError: the child has
\* terminated.  Nothing ends the wait while it has not.
legacy_run_cgi_finish(w) ==
    /\ server = "legacy"
    /\ pc[w] = "legacy_wait"
    /\ script[w].end # "hang"
    /\ captured' = [captured EXCEPT ![w] = [out |-> script[w].out, err |-> script[w].err]]
    /\ IF script[w].end = "fail"
       THEN Return(w, legacy_script_error(wire[w], script[w].err))
       ELSE Return(w, legacy_respond(wire[w], script[w].out))
    /\ UNCHANGED <<server, enable_cgi, catalogue, mode, sys_std, stream, os_environ, request,
                   path, query, filepath, fsLog, script, env, old, seen>>

(***************************************************************************)
(* Specifications.                                                         *)
(***************************************************************************)
Step(w) ==
    \/ handle_parse(w)
    \/ handle_dispatch(w)
    \/ write_file(w)
    \/ write_listing(w)
    \/ run_cgi_python_env(w)
    \/ run_cgi_python_save(w)
    \/ run_cgi_python_redirect(w)
    \/ run_cgi_python_environ(w)
    \/ run_cgi_python_exec(w)
    \/ run_cgi_python_collect(w)
    \/ run_cgi_python_restore(w)
    \/ run_cgi_python_respond(w)
    \/ run_cgi_exec_spawn(w)
    \/ run_cgi_exec_communicate(w)
    \/ run_cgi_exec_timeout(w)
    \/ legacy_handle_parse(w)
    \/ legacy_handle_dispatch(w)
    \/ legacy_write_file(w)
    \/ legacy_write_listing(w)
    \/ legacy_run_cgi_spawn(w)
    \/ legacy_run_cgi_finish(w)

Next == \E w \in Workers : Step(w)

\* A worker with no connection has no request line.
NoRequest == <<>>

\* The state after start-up, with the accepted connections' request lines
\* (worker 1's drawn from reqs1, worker 2's from reqs2) waiting to be read.
InitWith(reqs1, reqs2, scripts) ==
    /\ server \in {"spartan", "legacy"}
    /\ enable_cgi \in BOOLEAN
    /\ catalogue = scripts
    /\ mode = InitMode
    /\ sys_std = Console
    /\ stream = [b \in BufferIds |-> <<>>]
    /\ os_environ = EnvTemplate
    /\ request \in {[w \in Workers |-> IF w = 1 THEN r1 ELSE r2] : r1 \in reqs1, r2 \in reqs2}
    /\ pc = [w \in Workers |-> IF request[w] = NoRequest THEN "idle" ELSE "accept"]
    /\ path = [w \in Workers |-> <<>>]
    /\ query = [w \in Workers |-> <<>>]
    /\ filepath = [w \in Workers |-> <<>>]
    /\ wire = [w \in Workers |-> <<>>]
    /\ fsLog = [w \in Workers |-> {}]
    /\ script = [w \in Workers |-> NoScript]
    /\ env = [w \in Workers |-> NoEnv]
    /\ old = [w \in Workers |-> NoStreams]
    /\ captured = [w \in Workers |-> NoCapture]
    /\ seen = [w \in Workers |-> NoEnv]
    /\ raised = [w \in Workers |-> NoExc]

\* One connection, any request line, a few script behaviours.
Init == InitWith(Requests, {NoRequest}, FewScripts)

Spec == Init /\ [][Next]_vars

\* One connection, a few request lines, any script output.
InitGateway == InitWith(FewRequests, {NoRequest}, ManyScripts)

GatewaySpec == InitGateway /\ [][Next]_vars

\* Two connections handled at the same time by two worker threads; the
\* second asks for the in-process script.
PythonRequest == Line(<<(<<"h">>), <<"/">> \o CGIBIN \o <<"/">> \o SPY, (<<"0">>)>>)

InitConcurrent == InitWith(FewRequests, {PythonRequest}, FewScripts)

ConcurrentSpec == InitConcurrent /\ [][Next]_vars

\* A worker that waits in communicate(timeout=10) for a script that has not
\* terminated is eventually woken by the timeout.  This is the only step
\* that can follow such a wait, so it is the fairness the liveness of the
\* gateway rests on; subprocess.run in cgi.py is given no timeout and has
\* no such step.
InitLive == InitWith(FewRequests, {NoRequest}, FewScripts)

LiveSpec == InitLive /\ [][Next]_vars /\ \A w \in Workers : WF_vars(run_cgi_exec_timeout(w))

(***************************************************************************)
(* Properties.                                                             *)
(***************************************************************************)
StatusCount(conn) == Cardinality({i \in 1..Len(conn) : conn[i].t = "status"})

HasStatus(conn, c) == \E i \in 1..Len(conn) : conn[i].t = "status" /\ conn[i].code = c

\* The connection holds one status line with code c and nothing else.
OnlyStatus(conn, c) == Len(conn) = 1 /\ conn[1].t = "status" /\ conn[1].code = c

\* The fields of the worker's request line.
FieldsOf(w) == Split(Strip(request[w], {CR, LF}), " ")

\* The worker ran a script inside the server process / as a child process.
RanInProcess(w) ==
    server = "spartan" /\ script[w] # NoScript /\ Suffix(NameOf(filepath[w])) = <<".", "py">>

RanExternal(w) == script[w] # NoScript /\ ~RanInProcess(w)

\* C1: in spartan_cgi_server.py every handled request gets exactly one
\* status line, written before any body byte, whatever the outcome.
C1_ExactlyOneStatusLine ==
    \A w \in Workers :
        server = "spartan" =>
            /\ wire[w] # <<>> => wire[w][1].t = "status"
            /\ StatusCount(wire[w]) <= 1
            /\ pc[w] = "done" => StatusCount(wire[w]) = 1

\* The path component of the request's path field: the whole field in
\* spartan_cgi_server.py, the URL's path in cgi.py.
PathComponent(w) ==
    IF server = "legacy" THEN urlparse_path(FieldsOf(w)[2]) ELSE FieldsOf(w)[2]

\* Walking the decoded, stripped path segment by segment from Root: does a
\* ".." ever step above Root?
RECURSIVE StepsAbove(_, _)
StepsAbove(segs, depth) ==
    IF segs = <<>> THEN FALSE
    ELSE IF Head(segs) = <<>> \/ Head(segs) = DOT THEN StepsAbove(Tail(segs), depth)
    ELSE IF Head(segs) = DOTDOT
    THEN depth = 0 \/ StepsAbove(Tail(segs), depth - 1)
    ELSE StepsAbove(Tail(segs), depth + 1)

OutsideRoot(w) ==
    /\ Len(FieldsOf(w)) >= 3
    /\ StepsAbove(Split(Strip(unquote(PathComponent(w)), {"/"}), "/"), 0)

C3_AbnormalEndIsServerError ==
    \A w \in Workers :
        (RanInProcess(w) /\ pc[w] = "done" /\ script[w].end \in {"fail", "exit", "noexec"})
            => HasStatus(wire[w], 5)

\* C4: when run_cgi_python is over, sys.stdout, sys.stderr and sys.stdin
\* are the stream objects they were right before it.
C4_StreamsRestored ==
    \A w \in Workers : (RanInProcess(w) /\ pc[w] = "done") => sys_std = old[w]

\* C5: when both connections run in-process scripts, each response is
\* exactly the translation of what the connection's own script printed.
C5_OwnOutputOnly ==
    (\A v \in Workers : RanInProcess(v)) =>
        \A w \in Workers :
            (pc[w] = "done" /\ script[w].end = "ok") => wire[w] = respond(<<>>, script[w].out)

\* C6: the variables set for one gateway invocation never change the
\* process environment, and a script only ever sees the values of its own
\* request.
C6_EnvironmentPerInvocation ==
    /\ os_environ = EnvTemplate
    /\ \A w \in Workers :
          seen[w] # NoEnv =>
              /\ seen[w]["REMOTE_ADDR"] \in {ClientAddr(w), Unset}
              /\ seen[w]["SCRIPT_FILENAME"] \in {PathStr(filepath[w]), Unset}

\* C7: in external-process mode a script that never terminates still leads
\* to a status line with code 5 and to the end of the handling.
C7_HungScriptTimesOut ==
    \A w \in Workers :
        (pc[w] \in {"exec_wait", "legacy_wait"} /\ script[w].end = "hang")
            ~> (pc[w] = "done" /\ HasStatus(wire[w], 5))

\* C8: every status line written carries a code in {2, 3, 4, 5}.
C8_StatusCodeInRange ==
    \A w \in Workers : \A i \in 1..Len(wire[w]) :
        wire[w][i].t = "status" => wire[w][i].code \in {2, 3, 4, 5}

\* The first blank line of an output: the earliest "\n\n" or "\r\n\r\n".
FirstBlank(out) ==
    LET a == Find(out, LFLF)
        b == Find(out, CRLFCRLF)
    IN  IF a = 0 THEN [at |-> b, len |-> 4]
        ELSE IF b = 0 \/ a < b THEN [at |-> a, len |-> 2]
        ELSE [at |-> b, len |-> 4]

\* The value of the last header line named name, or dflt.
HeaderOr(lines, name, dflt) ==
    LET idx == {i \in 1..Len(lines) : StartsWith(Lower(lines[i]), <<name, ":">>)}
    IN  IF idx = {} THEN dflt
        ELSE Strip(From(lines[CHOOSE i \in idx : \A j \in idx : i >= j], 3), Whitespace)

\* The hundreds digit of the number a Status value starts with.
HundredsDigit(value) ==
    LET n == Len(value)
        k == CHOOSE m \in 0..n :
                /\ \A i \in 1..m : value[i] \in Digits
                /\ m = n \/ value[m + 1] \notin Digits
    IN  (DigitsVal(SubSeq(value, 1, k)) \div 100) % 10

\* The response the translation rule prescribes for an output with a blank
\* line.
Prescribed(out) ==
    LET fb == FirstBlank(out)
        lines == splitlines(SubSeq(out, 1, fb.at - 1))
        status == HeaderOr(lines, "status", <<>>)
        c == IF status = <<>> THEN 2 ELSE HundredsDigit(status)
    IN  << StatusLine(c, HeaderOr(lines, "content-type", <<"text/plain">>)),
           BodyBytes(From(out, fb.at + fb.len)) >>

\* C9: in spartan_cgi_server.py, for an output made of header lines, a
\* blank line and a body, the response is the status line "<c> <t>" (c the
\* hundreds digit of Status, 2 without one; t the Content-Type, text/plain
\* without one) followed by the body verbatim.
C9_TranslationOfOutput ==
    \A w \in Workers :
        ( /\ server = "spartan"
          /\ pc[w] = "done"
          /\ script[w] # NoScript
          /\ script[w].end = "ok"
          /\ FirstBlank(script[w].out).at # 0 )
        => wire[w] = Prescribed(script[w].out)

\* A request line that is not three single-space-separated fields with a
\* non-empty path and a non-negative integer content length.
Malformed(w) ==
    \/ Len(FieldsOf(w)) # 3
    \/ FieldsOf(w)[2] = <<>>
    \/ ~IsDigits(FieldsOf(w)[3])

\* C10: a malformed request line is answered with a client error, without
\* any filesystem call and without running a script.
C10_MalformedRejected ==
    \A w \in Workers :
        (request[w] # NoRequest /\ Malformed(w)) =>
            /\ fsLog[w] = {}
            /\ script[w] = NoScript
            /\ pc[w] = "done" => OnlyStatus(wire[w], 4)

\* The path component of the request's path field as the protocol defines
\* it: what precedes the first "?".
Requested(w) ==
    LET f == FieldsOf(w)[2]
        q == Find(f, <<"?">>)
    IN  IF q = 0 THEN f ELSE SubSeq(f, 1, q - 1)

\* The query component: what follows the first "?", empty without one.
RequestedQuery(w) ==
    LET f == FieldsOf(w)[2]
        q == Find(f, <<"?">>)
    IN  IF q = 0 THEN <<>> ELSE From(f, q + 1)

\* The request line has three fields and its path component, decoded,
\* stripped and normalised, stays within Root.
Resolves(w) ==
    /\ Len(FieldsOf(w)) = 3
    /\ Requested(w) # <<>>
    /\ ~StepsAbove(Split(Strip(unquote(Requested(w)), {"/"}), "/"), 0)

\* The target below Root the path component resolves to.
Target(w) == join_root(normpath(Strip(unquote(Requested(w)), {"/"})))

\* C11: a request for a directory whose path does not end in "/" is
\* answered by one redirect status line, the requested path with "/"
\* appended, and nothing else.
C11_DirectoryRedirect ==
    \A w \in Workers :
        ( /\ request[w] # NoRequest
          /\ Resolves(w)
          /\ IsDir(Target(w))
          /\ ~EndsWithSlash(Requested(w))
          /\ pc[w] = "done" )
        => wire[w] = <<StatusLine(3, Requested(w) \o <<"/">>)>>

\* The directories the worker has enumerated.
Listed(w) == {c.path : c \in {k \in fsLog[w] : k.op = "iterdir"}}

\* The response that transfers the regular file f.
FileTransfer(f) == <<StatusLine(2, guess_type(f)), BodyBytes(Contents(f))>>

\* The connection holds a line of a directory listing.
HasListingLine(conn) ==
    \E i \in 1..Len(conn) : conn[i].t = "body" /\ StartsWith(conn[i].text, <<"=>">>)

\* The target the server resolved the request to: Root joined with the
\* decoded, stripped and normalised path the server holds.
Resolved(w) == join_root(normpath(Strip(unquote(path[w]), {"/"})))

\* The server has looked the request up (it was not rejected while being
\* parsed) and answered it without an I/O failure.
Served(w) == pc[w] = "done" /\ fsLog[w] # {} /\ raised[w] = NoExc

\* C12: a directory requested with a trailing slash that directly holds a
\* regular file index.gmi is answered by the transfer of that file (status
\* 2 text/gemini, then its bytes), never by a listing; a listing is only
\* ever written for a directory without index.gmi.
C12_IndexPreferred ==
    \A w \in Workers :
        /\ ( /\ Served(w)
             /\ IsDir(Resolved(w))
             /\ EndsWithSlash(path[w])
             /\ IsFile(Append(Resolved(w), INDEX)) )
           => /\ wire[w] = FileTransfer(Append(Resolved(w), INDEX))
              /\ wire[w][1] = StatusLine(2, <<"text/gemini">>)
              /\ ~HasListingLine(wire[w])
        /\ \A d \in Listed(w) : ~IsFile(Append(d, INDEX))

\* The index.gmi of pub/ has been transferred for a request of "/pub/".
C12_Witness ==
    \E w \in Workers :
        /\ Served(w)
        /\ Resolved(w) = <<PUB>>
        /\ EndsWithSlash(path[w])
        /\ wire[w] = FileTransfer(<<PUB, INDEX>>)

\* The lines of a listing response after its status line, the optional
\* leading parent-navigation line "=>.." left out.
EntryLines(conn) ==
    LET lines == [i \in 1..(Len(conn) - 1) |-> conn[i + 1].text]
    IN  IF lines # <<>> /\ lines[1] = <<"=>", ".", ".", LF>> THEN Tail(lines) ELSE lines

\* Directories first, then case-insensitive name order.
InListingOrder(children) ==
    \A i, j \in 1..Len(children) :
        i < j =>
            /\ IsDir(children[j]) => IsDir(children[i])
            /\ IsDir(children[i]) = IsDir(children[j])
                   => ~StrLess(Lower(NameOf(children[j])), Lower(NameOf(children[i])))

\* C13: the listing of a directory has exactly one "=>" line per entry
\* ("=>name/" for a subdirectory, "=>name" for a file), subdirectories
\* first and each group in case-insensitive name order, whatever the order
\* of enumeration.
C13_ListingOrdered ==
    \A w \in Workers : \A d \in Listed(w) :
        (pc[w] = "done" /\ raised[w] = NoExc)
            => \E children \in Orders(Children(d)) :
                  /\ InListingOrder(children)
                  /\ EntryLines(wire[w]) =
                         [i \in 1..Len(children) |-> EntryLine(children[i]) \o <<LF>>]

\* The text occurs in the meta of the connection's status line.
MetaIncludes(conn, text) ==
    \E i \in 1..Len(conn) :
        /\ conn[i].t = "status"
        /\ text = <<>> \/ Find(conn[i].text, text) # 0

\* C14: in external-process mode a script that exits with a non-zero code
\* is answered by a server error whose meta includes its standard-error
\* text, whatever it printed, and by no success status.
C14_NonZeroExitIsServerError ==
    \A w \in Workers :
        (RanExternal(w) /\ pc[w] = "done" /\ script[w].end = "fail")
            => /\ OnlyStatus(wire[w], 5)
               /\ MetaIncludes(wire[w], Strip(script[w].err, Whitespace))

\* A line of the output is a Status or Content-Type header.
HasHeaderLine(out) ==
    \E i \in 1..Len(splitlines(out)) :
        \/ StartsWith(Lower(splitlines(out)[i]), <<"status", ":">>)
        \/ StartsWith(Lower(splitlines(out)[i]), <<"content-type", ":">>)

\* Output that is neither empty nor framed: no blank line and no header.
Unframed(out) == out # <<>> /\ FirstBlank(out).at = 0 /\ ~HasHeaderLine(out)

\* C15: in spartan_cgi_server.py, non-empty output with no blank line and
\* no Status or Content-Type header is answered by a server error, and
\* none of it is sent as a body.
C15_UnframedOutputIsServerError ==
    \A w \in Workers :
        ( /\ server = "spartan"
          /\ pc[w] = "done"
          /\ script[w] # NoScript
          /\ script[w].end = "ok"
          /\ Unframed(script[w].out) )
        => OnlyStatus(wire[w], 5)

\* C16: the filesystem target is resolved from the decoded path component
\* alone (a resolvable request is looked up, and at its target), and a
\* script run through the gateway finds QUERY_STRING equal to the query
\* component as received, empty when the request has none.
C16_QueryStringPassedThrough ==
    \A w \in Workers :
        /\ (request[w] # NoRequest /\ Resolves(w)) =>
              /\ pc[w] = "dispatch" => filepath[w] = Target(w)
              /\ pc[w] = "done" => fsLog[w] # {}
        /\ seen[w] # NoEnv => seen[w]["QUERY_STRING"] = RequestedQuery(w)

\* C17: with gateway execution disabled no request makes the server spawn
\* a process or run a script in-process, and a regular-file target, also an
\* executable or a ".py" file under cgi-bin, is answered by the file
\* transfer: status 2 with the type of its extension, then its bytes.
C17_NoGatewayWhenDisabled ==
    ~enable_cgi =>
        \A w \in Workers :
            /\ script[w] = NoScript
            /\ seen[w] = NoEnv
            /\ pc[w] \in {"idle", "accept", "dispatch", "write_file", "listing", "done"}
            /\ \A c \in fsLog[w] : c.op \notin {"exec", "chmod", "access"}
            /\ (Served(w) /\ IsFile(Resolved(w))) => wire[w] = FileTransfer(Resolved(w))

\* With the gateway disabled, the in-process script and the executable
\* under cgi-bin have been transferred as files.
C17_Witness ==
    /\ ~enable_cgi
    /\ \E w \in Workers :
          /\ Served(w)
          /\ Resolved(w) \in {<<CGIBIN, SPY>>, <<CGIBIN, XBIN>>}
          /\ wire[w] = FileTransfer(Resolved(w))

\* The body bytes written to the connection, in order.
BodyOf(conn) ==
    Concat([i \in 1..Len(conn) |-> IF conn[i].t = "body" THEN conn[i].text ELSE <<>>])

\* C18: in spartan_cgi_server.py the output is split at its first blank
\* line, "\n\n" or "\r\n\r\n" whichever comes first: the body sent is
\* every byte after it, also when the body holds the other kind of blank
\* line.
C18_SplitAtFirstBlankLine ==
    \A w \in Workers :
        ( /\ server = "spartan"
          /\ pc[w] = "done"
          /\ raised[w] = NoExc
          /\ script[w] # NoScript
          /\ script[w].end = "ok"
          /\ FirstBlank(script[w].out).at # 0 )
        => LET fb == FirstBlank(script[w].out)
           IN  /\ header_end(script[w].out) = fb.at
               /\ BodyOf(wire[w]) = From(script[w].out, fb.at + fb.len)

\* The first line of the output, without its newline; the output itself
\* when it has no newline.
FirstLine(out) ==
    IF Find(out, <<LF>>) = 0 THEN out ELSE SubSeq(out, 1, Find(out, <<LF>>) - 1)

\* What follows the first newline of the output.
Remaining(out) == IF Find(out, <<LF>>) = 0 THEN <<>> ELSE From(out, Find(out, <<LF>>) + 1)

\* The output starts with a pre-formatted status line "<digits> <meta>"
\* ended by a newline.
Preformatted(out) ==
    /\ Find(out, <<LF>>) # 0
    /\ Len(FirstLine(out)) >= 3
    /\ FirstLine(out)[Len(FirstLine(out))] \notin Whitespace
    /\ LET sp == Find(FirstLine(out), <<" ">>)
       IN  sp > 1 /\ sp < Len(FirstLine(out)) /\ IsDigits(SubSeq(FirstLine(out), 1, sp - 1))

\* C19: in cgi.py, for a script that exits with code 0 after printing a
\* status line "<digits> <meta>", a newline and remaining bytes B, the
\* client receives that status line followed by exactly B.
C19_LegacyBodyVerbatim ==
    \A w \in Workers :
        ( /\ server = "legacy"
          /\ pc[w] = "done"
          /\ script[w] # NoScript
          /\ script[w].end = "ok"
          /\ Preformatted(script[w].out) )
        => LET line == FirstLine(script[w].out)
               sp == Find(line, <<" ">>)
           IN  /\ wire[w][1] = StatusLine(DigitsVal(SubSeq(line, 1, sp - 1)), From(line, sp + 1))
               /\ StatusCount(wire[w]) = 1
               /\ BodyOf(wire[w]) = Remaining(script[w].out)

\* C20: handling requests changes nothing under Root: every file keeps the
\* permission bits it had at start-up, and the server makes no call that
\* changes a file.
C20_ServedTreeReadOnly ==
    /\ mode = InitMode
    /\ \A w \in Workers : \A c \in fsLog[w] : c.op # "chmod"

====
